---- MODULE Spec2Model ----
(***************************************************************************)
(* Model of the obligation/strategy engine of formal_proof_system.py:      *)
(* ProofObligation, ProofStatus and the six prove_* strategies of          *)
(* FormalProofSystem.  Python is single-threaded and a strategy runs to    *)
(* completion, so one strategy call is one action; what happens inside a   *)
(* call (the order of status assignments, log appends and probe            *)
(* evaluations) is kept in the call's result record.                       *)
(*                                                                         *)
(* The symbolic oracle (sympy) is external.  Expressions are polynomials   *)
(* in x of degree <= 2 with coefficients counted in halves, together with  *)
(* a flag telling whether the expression is in normal form: an expression  *)
(* compares equal to 0 only when its value is zero AND it is in normal     *)
(* form.  The oracle preserves values; which of simplify/expand/factor     *)
(* reaches the normal form, and which oracle call (if any) raises, is      *)
(* chosen by the environment per call (the "script").                      *)
(***************************************************************************)
EXTENDS Integers, Sequences, FiniteSets, TLC

\* obligation: the obligation handed to the strategies
\* other:      a second obligation, constructed alongside and never verified
\* list_id:    the identity of the list object each one holds as proof_steps
\* call:       the last operation performed (inputs, state before, effects)
\* ncalls:     the number of strategy calls and verification runs made
\* axioms, definitions, lemmas, theorems, corollaries: the five registries of
\*             the proof system, each a dict from names to entries
\* nwrites:    the number of registry writes made after construction
\* verified, failed: the two lists of a TheoremChecker (theorem names)
\* nverify:    the number of verify calls made on it
VARIABLES obligation, other, list_id, call, ncalls,
          axioms, definitions, lemmas, theorems, corollaries, nwrites,
          verified, failed, nverify

registries == <<axioms, definitions, lemmas, theorems, corollaries>>

checker == <<verified, failed, nverify>>

vars == <<obligation, other, list_id, call, ncalls, registries, nwrites, checker>>

\* Number of strategy calls explored on the obligation.
MaxCalls == 2

\* Number of add_axiom / add_definition calls explored after construction.
MaxWrites == 1

\* Number of verify calls explored on the TheoremChecker.
MaxVerify == 3

(***************************************************************************)
(* ProofStatus                                                             *)
(***************************************************************************)
PROVEN == "PROVEN"
REFUTED == "REFUTED"
UNKNOWN == "UNKNOWN"
\* ProofStatus.AXIOM (the bare word is reserved in TLA+)
AxiomStatus == "AXIOM"
ProofStatus == {PROVEN, REFUTED, UNKNOWN, AxiomStatus}

(***************************************************************************)
(* Expressions and the oracle                                              *)
(***************************************************************************)
\* c0 + c1*x + c2*x^2, coefficients in halves (n stands for n/2)
Poly(c0, c1, c2) == <<c0, c1, c2>>
ZeroPoly == Poly(0, 0, 0)
Expr(p, nf) == [p |-> p, nf |-> nf]

Const(n) == Expr(Poly(2 * n, 0, 0), TRUE)
Half == Expr(Poly(1, 0, 0), TRUE)
X == Expr(Poly(0, 2, 0), TRUE)
TwoX == Expr(Poly(0, 4, 0), TRUE)
XSquared == Expr(Poly(0, 0, 2), TRUE)
XSquaredPlus5 == Expr(Poly(10, 0, 2), TRUE)
\* x*x written so that it is not in normal form (e.g. an unexpanded product)
RawXSquared == Expr(Poly(0, 0, 2), FALSE)
\* 2*x and 4 written so that they are not in normal form
RawTwoX == Expr(Poly(0, 4, 0), FALSE)
RawFour == Expr(Poly(8, 0, 0), FALSE)

\* a - b: sympy evaluates the difference of normal forms, nothing more
Sub(a, b) == Expr([i \in 1..3 |-> a.p[i] - b.p[i]], a.nf /\ b.nf)

\* expr == 0 (structural comparison with the zero expression)
IsZero(e) == e.nf /\ e.p = ZeroPoly

\* expr.is_constant()
is_constant(e) == e.p[2] = 0 /\ e.p[3] = 0

\* value-preserving rewrites; s.norm names the rewrites that reach normal form
simplify(e, s) == Expr(e.p, e.nf \/ "simplify" \in s.norm)
expand(e, s) == Expr(e.p, e.nf \/ "expand" \in s.norm)
factor(e, s) == Expr(e.p, e.nf \/ "factor" \in s.norm)

Eval(p, v) == p[1] + p[2] * v + p[3] * v * v

\* limit(expression, variable, limit_point), finite limit points
limit(e, variable, point) ==
    IF variable = "x" THEN Expr(Poly(Eval(e.p, point), 0, 0), TRUE) ELSE e

\* diff(function, variable)
diff(e, variable) ==
    IF variable = "x" THEN Expr(Poly(e.p[2], 2 * e.p[3], 0), TRUE)
    ELSE Expr(ZeroPoly, TRUE)

\* antiderivative of c0 + c1*x (no constant of integration, as sympy)
Antiderivative(p) == Poly(0, p[1], p[2] \div 2)

\* integrate(integrand, variable) and integrate(integrand, (variable, a, b))
integrate(e, variable, bounds) ==
    IF bounds = <<>>
    THEN Expr(Antiderivative(e.p), TRUE)
    ELSE Expr(Poly(Eval(Antiderivative(e.p), bounds[2])
                   - Eval(Antiderivative(e.p), bounds[1]), 0, 0), TRUE)

(***************************************************************************)
(* Results of running a piece of code                                      *)
(***************************************************************************)
\* a fault is an instance of Exception, which is what the strategies catch
NoExc == "none"
OracleFault == "ComputationError"
ProbeFault == "ProbeError"

\* writes: the values assigned to obligation.status, in order
\* steps:  the entries appended to obligation.proof_steps, in order
\* evals:  the caller-supplied probes evaluated, in order
\* ret:    the returned boolean (meaningless while exc # NoExc)
\* exc:    the exception the code ended with, NoExc when it returned
Result(writes, steps, evals, ret, exc) ==
    [writes |-> writes, steps |-> steps, evals |-> evals, ret |-> ret, exc |-> exc]

\* a log entry: the fixed text of the f-string and the values it renders
\* (<<>> when it renders none)
Entry(text, args) == [text |-> text, args |-> args]

\* entries are compared text first: equal texts carry values of the same shape
SameEntry(a, b) == a.text = b.text /\ a.args = b.args
SameEntries(a, b) ==
    Len(a) = Len(b) /\ \A i \in 1..Len(a) : SameEntry(a[i], b[i])

Return(writes, steps, evals, ret) == Result(writes, steps, evals, ret, NoExc)
Raise(writes, steps, evals, exc) == Result(writes, steps, evals, FALSE, exc)

\* the except clause undoes the entries the try block appended
TryExcept_RollsBack(body, handler) ==
    IF body.exc = NoExc
    THEN body
    ELSE Return(Append(body.writes, UNKNOWN), handler, body.evals, FALSE)

\* the except clause forgets to reset the status
TryExcept_KeepsStatus(body, handler) ==
    IF body.exc = NoExc
    THEN body
    ELSE Return(body.writes, body.steps \o handler, body.evals, FALSE)

\* try: body / except Exception as e: status = UNKNOWN; <handler appends>; return False
TryExcept(body, handler) ==
    IF body.exc = NoExc
    THEN body
    ELSE Return(Append(body.writes, UNKNOWN), body.steps \o handler, body.evals, FALSE)

\* the status an obligation has after the assignments of a call
FinalStatus(before, writes) ==
    IF writes = <<>> THEN before ELSE writes[Len(writes)]

(***************************************************************************)
(* The six strategies.  s is the environment's script for the call:        *)
(* s.fault = k > 0 makes the k-th oracle call the code reaches raise,      *)
(* s.norm is the set of rewrites that reach the normal form.               *)
(***************************************************************************)

\* the factor stage is left out
simplification_body_NoFactor(o, s) ==
    IF s.fault = 1 THEN Raise(<<>>, <<>>, <<>>, OracleFault)
    ELSE LET d == simplify(Sub(o.hypothesis, o.conclusion), s) IN
    IF IsZero(d)
    THEN Return(<<PROVEN>>,
                <<Entry("Simplified difference to: ", [diff |-> d]),
                  Entry("Since = 0, equality holds", [diff |-> d])>>, <<>>, TRUE)
    ELSE IF s.fault = 2 THEN Raise(<<>>, <<>>, <<>>, OracleFault)
    ELSE LET expanded_diff == expand(d, s) IN
    IF IsZero(expanded_diff)
    THEN Return(<<PROVEN>>, <<Entry("Expanded to: ", [expanded_diff |-> expanded_diff])>>, <<>>, TRUE)
    ELSE Return(<<REFUTED>>, <<Entry("Cannot simplify to zero: ", [diff |-> d])>>, <<>>, FALSE)

\* body of the try block of prove_by_symbolic_simplification
simplification_body(o, s) ==
    IF s.fault = 1 THEN Raise(<<>>, <<>>, <<>>, OracleFault)
    ELSE LET d == simplify(Sub(o.hypothesis, o.conclusion), s) IN
    IF IsZero(d)
    THEN Return(<<PROVEN>>,
                <<Entry("Simplified difference to: ", [diff |-> d]),
                  Entry("Since = 0, equality holds", [diff |-> d])>>, <<>>, TRUE)
    ELSE IF s.fault = 2 THEN Raise(<<>>, <<>>, <<>>, OracleFault)
    ELSE LET expanded_diff == expand(d, s) IN
    IF IsZero(expanded_diff)
    THEN Return(<<PROVEN>>, <<Entry("Expanded to: ", [expanded_diff |-> expanded_diff])>>, <<>>, TRUE)
    ELSE IF s.fault = 3 THEN Raise(<<>>, <<>>, <<>>, OracleFault)
    ELSE LET factored_diff == factor(d, s) IN
    IF IsZero(factored_diff)
    THEN Return(<<PROVEN>>, <<Entry("Factored to: ", [factored_diff |-> factored_diff])>>, <<>>, TRUE)
    ELSE Return(<<REFUTED>>, <<Entry("Cannot simplify to zero: ", [diff |-> d])>>, <<>>, FALSE)

\* an obligation that already has a log is refused as an error
prove_by_symbolic_simplification_Once(o, s) ==
    LET body == IF Len(o.proof_steps) > 0
                THEN Raise(<<>>, <<>>, <<>>, OracleFault)
                ELSE simplification_body(o, s) IN
    TryExcept(body, <<Entry("Error in simplification: ", [e |-> body.exc])>>)

\* an obligation labelled with another method is refused as an error
prove_by_symbolic_simplification_ChecksMethod(o, s) ==
    LET body == IF o.proof_method # "Symbolic simplification"
                THEN Raise(<<>>, <<>>, <<>>, OracleFault)
                ELSE simplification_body(o, s) IN
    TryExcept(body, <<Entry("Error in simplification: ", [e |-> body.exc])>>)

prove_by_symbolic_simplification(o, s) ==
    LET body == simplification_body(o, s) IN
    TryExcept(body, <<Entry("Error in simplification: ", [e |-> body.exc])>>)

\* the status is set to Proven as soon as the base case holds
induction_body_ProvenEarly(base_case, inductive_step) ==
    IF base_case = "raise"
    THEN Raise(<<>>, <<>>, <<"base_case">>, ProbeFault)
    ELSE IF base_case = "false"
    THEN Return(<<REFUTED>>, <<Entry("Base case FAILED", <<>>)>>, <<"base_case">>, FALSE)
    ELSE IF inductive_step = "raise"
    THEN Raise(<<PROVEN>>, <<Entry("Base case: PROVEN", <<>>)>>,
               <<"base_case", "inductive_step">>, ProbeFault)
    ELSE IF inductive_step = "false"
    THEN Return(<<PROVEN, REFUTED>>,
                <<Entry("Base case: PROVEN", <<>>), Entry("Inductive step FAILED", <<>>)>>,
                <<"base_case", "inductive_step">>, FALSE)
    ELSE Return(<<PROVEN>>,
                <<Entry("Base case: PROVEN", <<>>),
                  Entry("Inductive step: PROVEN", <<>>),
                  Entry("By mathematical induction: PROVEN", <<>>)>>,
                <<"base_case", "inductive_step">>, TRUE)

\* both probes are evaluated before the base case is tested
induction_body_Eager(base_case, inductive_step) ==
    IF base_case = "raise"
    THEN Raise(<<>>, <<>>, <<"base_case">>, ProbeFault)
    ELSE IF inductive_step = "raise"
    THEN Raise(<<>>, <<>>, <<"base_case", "inductive_step">>, ProbeFault)
    ELSE IF base_case = "false"
    THEN Return(<<REFUTED>>, <<Entry("Base case FAILED", <<>>)>>,
                <<"base_case", "inductive_step">>, FALSE)
    ELSE IF inductive_step = "false"
    THEN Return(<<REFUTED>>,
                <<Entry("Base case: PROVEN", <<>>), Entry("Inductive step FAILED", <<>>)>>,
                <<"base_case", "inductive_step">>, FALSE)
    ELSE Return(<<PROVEN>>,
                <<Entry("Base case: PROVEN", <<>>),
                  Entry("Inductive step: PROVEN", <<>>),
                  Entry("By mathematical induction: PROVEN", <<>>)>>,
                <<"base_case", "inductive_step">>, TRUE)

\* the result of inductive_step() is not tested
induction_body_StepIgnored(base_case, inductive_step) ==
    IF base_case = "raise"
    THEN Raise(<<>>, <<>>, <<"base_case">>, ProbeFault)
    ELSE IF base_case = "false"
    THEN Return(<<REFUTED>>, <<Entry("Base case FAILED", <<>>)>>, <<"base_case">>, FALSE)
    ELSE IF inductive_step = "raise"
    THEN Raise(<<>>, <<Entry("Base case: PROVEN", <<>>)>>,
               <<"base_case", "inductive_step">>, ProbeFault)
    ELSE Return(<<PROVEN>>,
                <<Entry("Base case: PROVEN", <<>>),
                  Entry("Inductive step: PROVEN", <<>>),
                  Entry("By mathematical induction: PROVEN", <<>>)>>,
                <<"base_case", "inductive_step">>, TRUE)

\* a failing base case is evaluated a second time before giving up
induction_body_Retry(base_case, inductive_step) ==
    IF base_case = "raise"
    THEN Raise(<<>>, <<>>, <<"base_case">>, ProbeFault)
    ELSE IF base_case = "false"
    THEN Return(<<REFUTED>>, <<Entry("Base case FAILED", <<>>)>>,
                <<"base_case", "base_case">>, FALSE)
    ELSE IF inductive_step = "raise"
    THEN Raise(<<>>, <<Entry("Base case: PROVEN", <<>>)>>,
               <<"base_case", "inductive_step">>, ProbeFault)
    ELSE IF inductive_step = "false"
    THEN Return(<<REFUTED>>,
                <<Entry("Base case: PROVEN", <<>>), Entry("Inductive step FAILED", <<>>)>>,
                <<"base_case", "inductive_step">>, FALSE)
    ELSE Return(<<PROVEN>>,
                <<Entry("Base case: PROVEN", <<>>),
                  Entry("Inductive step: PROVEN", <<>>),
                  Entry("By mathematical induction: PROVEN", <<>>)>>,
                <<"base_case", "inductive_step">>, TRUE)

\* body of the try block of prove_by_mathematical_induction; a probe's
\* outcome is "true", "false" (any falsy value) or "raise"
induction_body(base_case, inductive_step) ==
    IF base_case = "raise"
    THEN Raise(<<>>, <<>>, <<"base_case">>, ProbeFault)
    ELSE IF base_case = "false"
    THEN Return(<<REFUTED>>, <<Entry("Base case FAILED", <<>>)>>, <<"base_case">>, FALSE)
    ELSE IF inductive_step = "raise"
    THEN Raise(<<>>, <<Entry("Base case: PROVEN", <<>>)>>,
               <<"base_case", "inductive_step">>, ProbeFault)
    ELSE IF inductive_step = "false"
    THEN Return(<<REFUTED>>,
                <<Entry("Base case: PROVEN", <<>>), Entry("Inductive step FAILED", <<>>)>>,
                <<"base_case", "inductive_step">>, FALSE)
    ELSE Return(<<PROVEN>>,
                <<Entry("Base case: PROVEN", <<>>),
                  Entry("Inductive step: PROVEN", <<>>),
                  Entry("By mathematical induction: PROVEN", <<>>)>>,
                <<"base_case", "inductive_step">>, TRUE)

prove_by_mathematical_induction(base_case, inductive_step) ==
    LET body == induction_body(base_case, inductive_step) IN
    TryExcept(body, <<Entry("Induction error: ", [e |-> body.exc])>>)

\* a predicate that finds no contradiction refutes the obligation
contradiction_body_Refutes(assumption, leads_to_contradiction) ==
    IF leads_to_contradiction = "raise"
    THEN Raise(<<>>, <<>>, <<"leads_to_contradiction">>, ProbeFault)
    ELSE IF leads_to_contradiction = "true"
    THEN Return(<<PROVEN>>,
                <<Entry("Assumed: ", [assumption |-> assumption]),
                  Entry("Derived contradiction", <<>>),
                  Entry("Therefore negation must be false", <<>>)>>,
                <<"leads_to_contradiction">>, TRUE)
    ELSE Return(<<REFUTED>>, <<>>, <<"leads_to_contradiction">>, FALSE)

\* a predicate that finds no contradiction leaves the status as it was
contradiction_body_Sticky(assumption, leads_to_contradiction) ==
    IF leads_to_contradiction = "raise"
    THEN Raise(<<>>, <<>>, <<"leads_to_contradiction">>, ProbeFault)
    ELSE IF leads_to_contradiction = "true"
    THEN Return(<<PROVEN>>,
                <<Entry("Assumed: ", [assumption |-> assumption]),
                  Entry("Derived contradiction", <<>>),
                  Entry("Therefore negation must be false", <<>>)>>,
                <<"leads_to_contradiction">>, TRUE)
    ELSE Return(<<>>, <<>>, <<"leads_to_contradiction">>, FALSE)

\* body of the try block of prove_by_contradiction
contradiction_body(assumption, leads_to_contradiction) ==
    IF leads_to_contradiction = "raise"
    THEN Raise(<<>>, <<>>, <<"leads_to_contradiction">>, ProbeFault)
    ELSE IF leads_to_contradiction = "true"
    THEN Return(<<PROVEN>>,
                <<Entry("Assumed: ", [assumption |-> assumption]),
                  Entry("Derived contradiction", <<>>),
                  Entry("Therefore negation must be false", <<>>)>>,
                <<"leads_to_contradiction">>, TRUE)
    ELSE Return(<<UNKNOWN>>, <<>>, <<"leads_to_contradiction">>, FALSE)

prove_by_contradiction(assumption, leads_to_contradiction) ==
    LET body == contradiction_body(assumption, leads_to_contradiction) IN
    TryExcept(body, <<Entry("Error: ", [e |-> body.exc])>>)

\* a mismatch is not logged (as prove_derivative does)
limit_body_SilentMismatch(expression, variable, limit_point, expected_value, s) ==
    IF s.fault = 1 THEN Raise(<<>>, <<>>, <<>>, OracleFault)
    ELSE LET computed_limit == limit(expression, variable, limit_point) IN
    IF s.fault = 2 THEN Raise(<<>>, <<>>, <<>>, OracleFault)
    ELSE IF IsZero(simplify(Sub(computed_limit, expected_value), s))
    THEN Return(<<PROVEN>>,
                <<Entry("lim = ", [variable |-> variable, limit_point |-> limit_point,
                                  expression |-> expression,
                                  computed_limit |-> computed_limit]),
                  Entry("Expected: ", [expected_value |-> expected_value]),
                  Entry("Match", <<>>)>>, <<>>, TRUE)
    ELSE Return(<<REFUTED>>, <<>>, <<>>, FALSE)

\* the mismatch branch returns True
limit_body_ReturnsTrue(expression, variable, limit_point, expected_value, s) ==
    IF s.fault = 1 THEN Raise(<<>>, <<>>, <<>>, OracleFault)
    ELSE LET computed_limit == limit(expression, variable, limit_point) IN
    IF s.fault = 2 THEN Raise(<<>>, <<>>, <<>>, OracleFault)
    ELSE IF IsZero(simplify(Sub(computed_limit, expected_value), s))
    THEN Return(<<PROVEN>>,
                <<Entry("lim = ", [variable |-> variable, limit_point |-> limit_point,
                                  expression |-> expression,
                                  computed_limit |-> computed_limit]),
                  Entry("Expected: ", [expected_value |-> expected_value]),
                  Entry("Match", <<>>)>>, <<>>, TRUE)
    ELSE Return(<<REFUTED>>,
                <<Entry("Limit is , expected ", [computed_limit |-> computed_limit,
                                                expected_value |-> expected_value])>>,
                <<>>, TRUE)

\* body of the try block of prove_limit
limit_body(expression, variable, limit_point, expected_value, s) ==
    IF s.fault = 1 THEN Raise(<<>>, <<>>, <<>>, OracleFault)
    ELSE LET computed_limit == limit(expression, variable, limit_point) IN
    IF s.fault = 2 THEN Raise(<<>>, <<>>, <<>>, OracleFault)
    ELSE IF IsZero(simplify(Sub(computed_limit, expected_value), s))
    THEN Return(<<PROVEN>>,
                <<Entry("lim = ", [variable |-> variable, limit_point |-> limit_point,
                                  expression |-> expression,
                                  computed_limit |-> computed_limit]),
                  Entry("Expected: ", [expected_value |-> expected_value]),
                  Entry("Match", <<>>)>>, <<>>, TRUE)
    ELSE Return(<<REFUTED>>,
                <<Entry("Limit is , expected ", [computed_limit |-> computed_limit,
                                                expected_value |-> expected_value])>>,
                <<>>, FALSE)

prove_limit(expression, variable, limit_point, expected_value, s) ==
    LET body == limit_body(expression, variable, limit_point, expected_value, s) IN
    TryExcept(body, <<Entry("Limit computation error: ", [e |-> body.exc])>>)

\* the difference is compared with 0 without being simplified
derivative_body_NoSimplify(function, variable, expected_derivative, s) ==
    IF s.fault = 1 THEN Raise(<<>>, <<>>, <<>>, OracleFault)
    ELSE LET computed_derivative == diff(function, variable) IN
    IF IsZero(Sub(computed_derivative, expected_derivative))
    THEN Return(<<PROVEN>>,
                <<Entry("d/d () = ", [variable |-> variable, function |-> function,
                                     computed_derivative |-> computed_derivative]),
                  Entry("Expected: ", [expected_derivative |-> expected_derivative]),
                  Entry("Match", <<>>)>>, <<>>, TRUE)
    ELSE Return(<<REFUTED>>, <<>>, <<>>, FALSE)

\* body of the try block of prove_derivative
derivative_body(function, variable, expected_derivative, s) ==
    IF s.fault = 1 THEN Raise(<<>>, <<>>, <<>>, OracleFault)
    ELSE LET computed_derivative == diff(function, variable) IN
    IF s.fault = 2 THEN Raise(<<>>, <<>>, <<>>, OracleFault)
    ELSE IF IsZero(simplify(Sub(computed_derivative, expected_derivative), s))
    THEN Return(<<PROVEN>>,
                <<Entry("d/d () = ", [variable |-> variable, function |-> function,
                                     computed_derivative |-> computed_derivative]),
                  Entry("Expected: ", [expected_derivative |-> expected_derivative]),
                  Entry("Match", <<>>)>>, <<>>, TRUE)
    ELSE Return(<<REFUTED>>, <<>>, <<>>, FALSE)

\* the except clause logs the error, as the other strategies' clauses do
prove_derivative_LogsError(function, variable, expected_derivative, s) ==
    LET body == derivative_body(function, variable, expected_derivative, s) IN
    TryExcept(body, <<Entry("Derivative error: ", [e |-> body.exc])>>)

prove_derivative(function, variable, expected_derivative, s) ==
    TryExcept(derivative_body(function, variable, expected_derivative, s), <<>>)

\* a constant residual is accepted whether or not bounds were given
integral_body_AnyConstant(integrand, variable, bounds, expected_value, s) ==
    IF s.fault = 1 THEN Raise(<<>>, <<>>, <<>>, OracleFault)
    ELSE LET computed_integral == integrate(integrand, variable, bounds) IN
    IF s.fault = 2 THEN Raise(<<>>, <<>>, <<>>, OracleFault)
    ELSE LET d == simplify(Sub(computed_integral, expected_value), s) IN
    IF IsZero(d) \/ is_constant(d)
    THEN Return(<<PROVEN>>,
                <<Entry("Integral = ", [integrand |-> integrand, variable |-> variable,
                                       computed_integral |-> computed_integral]),
                  Entry("Expected: ", [expected_value |-> expected_value])>>, <<>>, TRUE)
    ELSE Return(<<REFUTED>>, <<>>, <<>>, FALSE)

\* body of the try block of prove_integral; bounds = <<>> stands for None
integral_body(integrand, variable, bounds, expected_value, s) ==
    IF s.fault = 1 THEN Raise(<<>>, <<>>, <<>>, OracleFault)
    ELSE LET computed_integral == integrate(integrand, variable, bounds) IN
    IF s.fault = 2 THEN Raise(<<>>, <<>>, <<>>, OracleFault)
    ELSE LET d == simplify(Sub(computed_integral, expected_value), s) IN
    IF IsZero(d)
    THEN Return(<<PROVEN>>,
                <<Entry("Integral = ", [integrand |-> integrand, variable |-> variable,
                                       computed_integral |-> computed_integral]),
                  Entry("Expected: ", [expected_value |-> expected_value])>>, <<>>, TRUE)
    ELSE IF bounds # <<>>
    THEN Return(<<REFUTED>>, <<>>, <<>>, FALSE)
    ELSE IF s.fault = 3 THEN Raise(<<>>, <<>>, <<>>, OracleFault)
    ELSE IF is_constant(d)
    THEN Return(<<PROVEN>>,
                <<Entry("Integral = ", [integrand |-> integrand, variable |-> variable,
                                       computed_integral |-> computed_integral]),
                  Entry("Expected: ", [expected_value |-> expected_value])>>, <<>>, TRUE)
    ELSE Return(<<REFUTED>>, <<>>, <<>>, FALSE)

prove_integral(integrand, variable, bounds, expected_value, s) ==
    TryExcept(integral_body(integrand, variable, bounds, expected_value, s), <<>>)

(***************************************************************************)
(* Inputs explored                                                         *)
(***************************************************************************)
(***************************************************************************)
(* TheoremChecker.  A condition is named by the Python expression that     *)
(* builds it.  Printing is taken to succeed and is not modelled, so the    *)
(* description, which is only printed, is left out.                        *)
(***************************************************************************)
\* the Python booleans, the sympy booleans, the integer 0 and a relational
\* sympy cannot decide
Conditions == {"True", "False", "S.true", "S.false", "0", "Eq(x, y)"}

\* isinstance(condition, bool)
isinstance_bool(condition) == condition \in {"True", "False"}

\* bool(condition): "raise" for a relational, whose truth value sympy
\* refuses to determine
bool(condition) ==
    CASE condition \in {"True", "S.true"} -> "true"
      [] condition \in {"False", "S.false", "0"} -> "false"
      [] OTHER -> "raise"

\* simplify(condition) == True: simplify keeps the value of a condition, and
\* only the true ones compare equal to True
simplify_is_True(condition) == condition \in {"True", "S.true"}

\* condition == 0: Python's False equals 0, sympy's false does not
equals_0(condition) == condition \in {"False", "0"}

\* verified, failed: the names appended to each list, in order
VerifyResult(v, f, ret, exc) == [verified |-> v, failed |-> f, ret |-> ret, exc |-> exc]

\* body of the try block of verify; s.fault = 1 makes simplify raise
verify_body(theorem_name, condition, s) ==
    IF ~isinstance_bool(condition) /\ bool(condition) = "raise"
    THEN VerifyResult(<<>>, <<>>, FALSE, ProbeFault)
    ELSE LET result == IF isinstance_bool(condition) THEN condition = "True"
                       ELSE bool(condition) = "true" IN
    IF result
    THEN VerifyResult(<<theorem_name>>, <<>>, TRUE, NoExc)
    ELSE IF s.fault = 1
    THEN VerifyResult(<<>>, <<>>, FALSE, OracleFault)
    ELSE IF simplify_is_True(condition) \/ equals_0(condition)
    THEN VerifyResult(<<theorem_name>>, <<>>, TRUE, NoExc)
    ELSE VerifyResult(<<>>, <<theorem_name>>, FALSE, NoExc)

\* the except clause returns False without recording the theorem
verify_DropsError(theorem_name, condition, s) ==
    LET body == verify_body(theorem_name, condition, s) IN
    IF body.exc = NoExc
    THEN body
    ELSE VerifyResult(body.verified, body.failed, FALSE, NoExc)

\* TheoremChecker.verify: except Exception: failed.append(theorem_name); return False
verify(theorem_name, condition, s) ==
    LET body == verify_body(theorem_name, condition, s) IN
    IF body.exc = NoExc
    THEN body
    ELSE VerifyResult(body.verified, Append(body.failed, theorem_name), FALSE, NoExc)

\* TheoremChecker.report: the total it prints
report(v, f) == [verified |-> Len(v), total |-> Len(v) + Len(f), failed |-> f]

\* TheoremChecker.__init__
TheoremChecker == [verified |-> <<>>, failed |-> <<>>]

\* the names under which theorems are checked
TheoremNames == {"Spiral decomposition", "Euler's Identity"}

\* simplify returning, and raising
VerifyScripts == {[fault |-> 0], [fault |-> 1]}

\* (hypothesis, conclusion) of the obligation under verification
Problems == {<<Const(3), Const(4)>>, <<RawXSquared, XSquared>>}

\* what a caller-supplied probe does when called: returns a truthy value,
\* returns a falsy value, or raises
ProbeOutcomes == {"true", "false", "raise"}

\* the assumption handed to prove_by_contradiction
Assumptions == {"not P"}

\* without a fault, each choice of the rewrite that reaches the normal form;
\* a fault at each oracle call; a fault at factor when expand has succeeded
SimplificationScripts ==
    [fault : {0}, norm : {{}, {"simplify"}, {"expand"}, {"factor"}}]
        \cup [fault : 1..3, norm : {{}}] \cup {[fault |-> 3, norm |-> {"expand"}]}
\* simplify reaching the normal form with and without a fault, and failing to
LimitScripts ==
    [fault : 0..2, norm : {{"simplify"}}] \cup {[fault |-> 0, norm |-> {}]}
DerivativeScripts ==
    [fault : 0..2, norm : {{"simplify"}}] \cup {[fault |-> 0, norm |-> {}]}
IntegralScripts == [fault : 0..3, norm : {{"simplify"}}]

\* lim x->1 x^2 against 4 and lim x->2 x^2 against an unevaluated 4
LimitCases ==
    {[expression |-> XSquared, variable |-> "x", limit_point |-> 1, expected_value |-> Const(4)],
     [expression |-> XSquared, variable |-> "x", limit_point |-> 2, expected_value |-> RawFour]}

\* d/dx x^2 against x and against an unevaluated 2*x
DerivativeCases ==
    {[function |-> XSquared, variable |-> "x", expected_derivative |-> e]
        : e \in {X, RawTwoX}}

\* indefinite: 2x against x^2 + 5 and against x; definite: x on [0,1] against 1/2 and 1
IntegralCases ==
    {[integrand |-> TwoX, variable |-> "x", bounds |-> <<>>, expected_value |-> XSquaredPlus5],
     [integrand |-> TwoX, variable |-> "x", bounds |-> <<>>, expected_value |-> X],
     [integrand |-> X, variable |-> "x", bounds |-> <<0, 1>>, expected_value |-> Half],
     [integrand |-> X, variable |-> "x", bounds |-> <<0, 1>>, expected_value |-> Const(1)]}

(***************************************************************************)
(* State                                                                   *)
(***************************************************************************)
\* ProofObligation(name, hypothesis, conclusion, proof_method)
ProofObligation(name, hypothesis, conclusion, proof_method) ==
    [name |-> name, hypothesis |-> hypothesis, conclusion |-> conclusion,
     proof_method |-> proof_method, status |-> UNKNOWN, proof_steps |-> <<>>]

\* proof_steps: List[str] = None
None == "None"

\* every missing proof_steps gets the same list object
post_init_SharedDefault(proof_steps, fresh) ==
    IF proof_steps = None THEN "default_list" ELSE proof_steps

\* __post_init__: a missing proof_steps becomes a new empty list; the result
\* is the identity of the list the obligation holds (fresh: a new list)
post_init(proof_steps, fresh) ==
    IF proof_steps = None THEN fresh ELSE proof_steps

(***************************************************************************)
(* Registries                                                              *)
(***************************************************************************)
\* {}
EmptyDict == [n \in {} |-> "none"]

\* d[name] = value
Put(d, name, value) ==
    [n \in DOMAIN d \cup {name} |-> IF n = name THEN value ELSE d[n]]

\* a name already present keeps its statement
add_axiom_KeepsExisting(axs, name, statement) ==
    IF name \in DOMAIN axs THEN axs ELSE Put(axs, name, statement)

\* self.axioms[name] = statement
add_axiom(axs, name, statement) == Put(axs, name, statement)

\* self.definitions[name] = definition
add_definition(defs, name, definition) == Put(defs, name, definition)

\* FormalProofSystem.__init__: five empty registries
FormalProofSystem ==
    [axioms |-> EmptyDict, definitions |-> EmptyDict, lemmas |-> EmptyDict,
     theorems |-> EmptyDict, corollaries |-> EmptyDict]

\* BlackRoadFormalSystem._setup_axioms: six add_axiom calls
setup_axioms(axs) ==
    LET a1 == add_axiom(axs, "complex_unit", "Eq(i**2, -1)")
        a2 == add_axiom(a1, "euler_exponential", "Eq(exp(I*pi), -1)")
        a3 == add_axiom(a2, "commutativity", "Eq(x + y, y + x)")
        a4 == add_axiom(a3, "associativity", "Eq((x + y) + z, x + (y + z))")
        a5 == add_axiom(a4, "distributivity", "Eq(x * (y + z), x*y + x*z)")
    IN  add_axiom(a5, "exp_continuous", "e^x is continuous everywhere")

\* BlackRoadFormalSystem._setup_definitions: three add_definition calls
setup_definitions(defs) ==
    LET d1 == add_definition(defs, "spiral_operator", "exp((a + I)*theta)")
        d2 == add_definition(d1, "golden_ratio", "(1 + sqrt(5))/2")
    IN  add_definition(d2, "blackroad_constant", "(hbar*omega)/(k_B*T)*(grad_L/L)")

\* BlackRoadFormalSystem.__init__
BlackRoadFormalSystem ==
    [FormalProofSystem EXCEPT !.axioms = setup_axioms(@),
                              !.definitions = setup_definitions(@)]

Systems == {FormalProofSystem, BlackRoadFormalSystem}

\* arguments of the add_axiom and add_definition calls explored
AxiomNames == {"complex_unit", "parallel_postulate"}
Statements == {"Eq(i**2, 1)"}
DefinitionNames == {"golden_ratio"}
DefinitionExprs == {"2*pi"}

\* the labels the drivers give their obligations
ProofMethods == {"Symbolic simplification", "Limit computation"}

Strategies ==
    {"simplification", "induction", "contradiction", "limit", "derivative", "integral"}

\* the rest of the state as an operation finds it
World ==
    [other |-> other, axioms |-> axioms, definitions |-> definitions,
     lemmas |-> lemmas, theorems |-> theorems, corollaries |-> corollaries]

NoCall ==
    [strategy |-> "none", args |-> <<>>, before |-> <<>>, world |-> <<>>,
     res |-> Return(<<>>, <<>>, <<>>, FALSE)]

Init ==
    /\ \E pr \in Problems :
          obligation = ProofObligation("T", pr[1], pr[2], "Symbolic simplification")
    /\ other = ProofObligation("U", Const(3), Const(4), "Limit computation")
    /\ list_id = [obligation |-> post_init(None, "list1"),
                  other |-> post_init(None, "list2")]
    /\ call = NoCall
    /\ ncalls = 0
    /\ \E sys \in Systems :
          /\ axioms = sys.axioms
          /\ definitions = sys.definitions
          /\ lemmas = sys.lemmas
          /\ theorems = sys.theorems
          /\ corollaries = sys.corollaries
    /\ nwrites = 0
    /\ verified = TheoremChecker.verified
    /\ failed = TheoremChecker.failed
    /\ nverify = 0

\* the entries of the call replace the log
Mutated_ReplacesLog(o, res) ==
    [o EXCEPT !.status = FinalStatus(@, res.writes),
              !.proof_steps = res.steps]

\* a strategy mutates the obligation passed to it in place: the status takes
\* the last value assigned and the appended entries go to the end of the log
Mutated(o, res) ==
    [o EXCEPT !.status = FinalStatus(@, res.writes),
              !.proof_steps = @ \o res.steps]

\* proof_steps.append acts on the list object: an obligation holding the same
\* list as the one being verified sees the appended entries too
SeenBy(o, res) ==
    IF list_id.other = list_id.obligation
    THEN [o EXCEPT !.proof_steps = @ \o res.steps]
    ELSE o

\* the record of a call kept for the properties: its inputs, the obligation
\* as it was before the call, and what the call did
CallRecord(strategy, args, res) ==
    [strategy |-> strategy, args |-> args, before |-> obligation, world |-> World,
     res |-> res]

ProveBySymbolicSimplification ==
    /\ ncalls < MaxCalls
    /\ \E s \in SimplificationScripts :
          LET res == prove_by_symbolic_simplification(obligation, s) IN
          /\ obligation' = Mutated(obligation, res)
          /\ other' = SeenBy(other, res)
          /\ call' = CallRecord("simplification", [s |-> s], res)
    /\ ncalls' = ncalls + 1
    /\ UNCHANGED <<checker, list_id, registries, nwrites>>

ProveByMathematicalInduction ==
    /\ ncalls < MaxCalls
    /\ \E base_case \in ProbeOutcomes, inductive_step \in ProbeOutcomes :
          LET res == prove_by_mathematical_induction(base_case, inductive_step) IN
          /\ obligation' = Mutated(obligation, res)
          /\ other' = SeenBy(other, res)
          /\ call' = CallRecord("induction",
                                [base_case |-> base_case,
                                 inductive_step |-> inductive_step], res)
    /\ ncalls' = ncalls + 1
    /\ UNCHANGED <<checker, list_id, registries, nwrites>>

ProveByContradiction ==
    /\ ncalls < MaxCalls
    /\ \E assumption \in Assumptions, leads_to_contradiction \in ProbeOutcomes :
          LET res == prove_by_contradiction(assumption, leads_to_contradiction) IN
          /\ obligation' = Mutated(obligation, res)
          /\ other' = SeenBy(other, res)
          /\ call' = CallRecord("contradiction",
                                [assumption |-> assumption,
                                 leads_to_contradiction |-> leads_to_contradiction], res)
    /\ ncalls' = ncalls + 1
    /\ UNCHANGED <<checker, list_id, registries, nwrites>>

ProveLimit ==
    /\ ncalls < MaxCalls
    /\ \E c \in LimitCases, s \in LimitScripts :
          LET res == prove_limit(c.expression, c.variable, c.limit_point,
                                 c.expected_value, s) IN
          /\ obligation' = Mutated(obligation, res)
          /\ other' = SeenBy(other, res)
          /\ call' = CallRecord("limit", [c |-> c, s |-> s], res)
    /\ ncalls' = ncalls + 1
    /\ UNCHANGED <<checker, list_id, registries, nwrites>>

ProveDerivative ==
    /\ ncalls < MaxCalls
    /\ \E c \in DerivativeCases, s \in DerivativeScripts :
          LET res == prove_derivative(c.function, c.variable,
                                      c.expected_derivative, s) IN
          /\ obligation' = Mutated(obligation, res)
          /\ other' = SeenBy(other, res)
          /\ call' = CallRecord("derivative", [c |-> c, s |-> s], res)
    /\ ncalls' = ncalls + 1
    /\ UNCHANGED <<checker, list_id, registries, nwrites>>

ProveIntegral ==
    /\ ncalls < MaxCalls
    /\ \E c \in IntegralCases, s \in IntegralScripts :
          LET res == prove_integral(c.integrand, c.variable, c.bounds,
                                    c.expected_value, s) IN
          /\ obligation' = Mutated(obligation, res)
          /\ other' = SeenBy(other, res)
          /\ call' = CallRecord("integral", [c |-> c, s |-> s], res)
    /\ ncalls' = ncalls + 1
    /\ UNCHANGED <<checker, list_id, registries, nwrites>>

\* add_axiom stamps the obligation at hand with ProofStatus.AXIOM
AddAxiom_StampsStatus ==
    /\ nwrites < MaxWrites
    /\ \E name \in AxiomNames, statement \in Statements :
          /\ axioms' = add_axiom(axioms, name, statement)
          /\ call' = CallRecord("add_axiom", [name |-> name, statement |-> statement],
                                NoCall.res)
    /\ obligation' = [obligation EXCEPT !.status = AxiomStatus]
    /\ nwrites' = nwrites + 1
    /\ UNCHANGED <<checker, other, list_id, ncalls,
                   definitions, lemmas, theorems, corollaries>>

\* system.add_axiom(name, statement)
AddAxiom ==
    /\ nwrites < MaxWrites
    /\ \E name \in AxiomNames, statement \in Statements :
          /\ axioms' = add_axiom(axioms, name, statement)
          /\ call' = CallRecord("add_axiom", [name |-> name, statement |-> statement],
                                NoCall.res)
    /\ nwrites' = nwrites + 1
    /\ UNCHANGED <<checker, obligation, other, list_id, ncalls,
                   definitions, lemmas, theorems, corollaries>>

\* system.add_definition(name, definition)
AddDefinition ==
    /\ nwrites < MaxWrites
    /\ \E name \in DefinitionNames, definition \in DefinitionExprs :
          /\ definitions' = add_definition(definitions, name, definition)
          /\ call' = CallRecord("add_definition",
                                [name |-> name, definition |-> definition], NoCall.res)
    /\ nwrites' = nwrites + 1
    /\ UNCHANGED <<checker, obligation, other, list_id, ncalls,
                   axioms, lemmas, theorems, corollaries>>

(***************************************************************************)
(* BlackRoadFormalSystem: the drivers and run_complete_verification.       *)
(* The expressions of the drivers are stood for by expressions of the      *)
(* polynomial domain with the same relation between the two sides.  The    *)
(* oracle calls a driver makes outside any strategy (series, subs,         *)
(* simplify on fixed inputs, for printing) are taken to return.            *)
(***************************************************************************)
\* r0*exp(a*t)*exp(I*omega*t) and r0*exp((a + I*omega)*t): equal in value,
\* the first not written in the form of the second
z_full == RawXSquared
z_compact == XSquared
\* exp(I*pi), which sympy evaluates to -1 when it is built, and -1
euler_lhs == Const(-1)
euler_rhs == Const(-1)
\* F_n/F_(n-1) in the variable n, its limit point oo, and (1 + sqrt(5))/2,
\* which equals the limit in value and is not written in its form
ratio == XSquared
n_symbol == "x"
oo == 2
phi == RawFour

\* what a driver hands back: the obligation it built, and the strategies it
\* called on it, in order
Proved(o, strategy, res) == [obligation |-> Mutated(o, res), calls |-> <<strategy>>]

prove_theorem_2_1_1_spiral_growth(s) ==
    LET o == ProofObligation("Spiral decomposition", z_full, z_compact,
                             "Symbolic simplification")
    IN  Proved(o, "simplification", prove_by_symbolic_simplification(o, s))

prove_theorem_2_2_1_euler_identity(s) ==
    LET o == ProofObligation("Euler's identity", euler_lhs, euler_rhs,
                             "Symbolic simplification")
    IN  Proved(o, "simplification", prove_by_symbolic_simplification(o, s))

prove_theorem_2_4_1_golden_ratio_limit(s) ==
    LET o == ProofObligation("Fibonacci ratio limit", ratio, phi, "Limit computation")
    IN  Proved(o, "limit", prove_limit(ratio, n_symbol, oo, phi, s))

\* sum(1 for t in theorems if t.status == ProofStatus.PROVEN)
RECURSIVE CountProven(_)
CountProven(ts) ==
    IF ts = <<>> THEN 0
    ELSE (IF ts[1].obligation.status = PROVEN THEN 1 ELSE 0) + CountProven(Tail(ts))

\* run_complete_verification: the local list theorems of the three
\* obligations the drivers return, then the two printing-only proofs, then
\* the summary; s1, s2, s3 are the scripts of the three strategy calls
run_complete_verification(s1, s2, s3) ==
    LET ts == <<prove_theorem_2_1_1_spiral_growth(s1),
                prove_theorem_2_2_1_euler_identity(s2),
                prove_theorem_2_4_1_golden_ratio_limit(s3)>>
    IN  [theorems |-> ts, proven |-> CountProven(ts), total |-> Len(ts)]

\* the oracle's behaviour explored during a run: the normal form reached,
\* not reached, and a fault at the first oracle call
RunSimplificationScripts ==
    {[fault |-> 0, norm |-> {"simplify"}], [fault |-> 0, norm |-> {}],
     [fault |-> 1, norm |-> {}]}
RunEulerScripts == {[fault |-> 0, norm |-> {}], [fault |-> 1, norm |-> {}]}
RunLimitScripts ==
    {[fault |-> 0, norm |-> {"simplify"}], [fault |-> 0, norm |-> {}],
     [fault |-> 1, norm |-> {"simplify"}]}

\* the run files each obligation it has built under self.theorems
RunCompleteVerification_Registers ==
    /\ ncalls < MaxCalls
    /\ \E s1 \in RunSimplificationScripts, s2 \in RunEulerScripts,
          s3 \in RunLimitScripts :
          LET run == run_complete_verification(s1, s2, s3) IN
          /\ call' = [strategy |-> "run_complete_verification",
                      args |-> [s1 |-> s1, s2 |-> s2, s3 |-> s3],
                      before |-> obligation, world |-> World, res |-> NoCall.res,
                      run |-> run]
          /\ theorems' = Put(Put(Put(theorems,
                                     run.theorems[1].obligation.name, run.theorems[1].obligation),
                                 run.theorems[2].obligation.name, run.theorems[2].obligation),
                             run.theorems[3].obligation.name, run.theorems[3].obligation)
    /\ ncalls' = ncalls + 1
    /\ UNCHANGED <<checker, obligation, other, list_id, nwrites,
                   axioms, definitions, lemmas, corollaries>>

\* system.run_complete_verification(): it touches neither the obligation at
\* hand nor the registries; the record of the call keeps what it built
RunCompleteVerification ==
    /\ ncalls < MaxCalls
    /\ \E s1 \in RunSimplificationScripts, s2 \in RunEulerScripts,
          s3 \in RunLimitScripts :
          LET run == run_complete_verification(s1, s2, s3) IN
          /\ call' = [strategy |-> "run_complete_verification",
                      args |-> [s1 |-> s1, s2 |-> s2, s3 |-> s3],
                      before |-> obligation, world |-> World, res |-> NoCall.res,
                      run |-> run]
    /\ ncalls' = ncalls + 1
    /\ UNCHANGED <<checker, obligation, other, list_id, nwrites, registries>>

\* checker.verify(theorem_name, condition)
Verify ==
    /\ nverify < MaxVerify
    /\ \E theorem_name \in TheoremNames, condition \in Conditions, s \in VerifyScripts :
          LET res == verify(theorem_name, condition, s) IN
          /\ verified' = verified \o res.verified
          /\ failed' = failed \o res.failed
          /\ call' = [strategy |-> "verify",
                      args |-> [theorem_name |-> theorem_name, condition |-> condition,
                                s |-> s],
                      before |-> [verified |-> verified, failed |-> failed],
                      world |-> World, res |-> res]
    /\ nverify' = nverify + 1
    /\ UNCHANGED <<obligation, other, list_id, ncalls, nwrites, registries>>

Next ==
    \/ ProveBySymbolicSimplification
    \/ ProveByMathematicalInduction
    \/ ProveByContradiction
    \/ ProveLimit
    \/ ProveDerivative
    \/ ProveIntegral
    \/ AddAxiom
    \/ AddDefinition

Spec == Init /\ [][Next]_vars

\* a BlackRoadFormalSystem, which is the class that has
\* run_complete_verification, with an obligation at hand
InitRun ==
    /\ Init
    /\ axioms = BlackRoadFormalSystem.axioms
    /\ definitions = BlackRoadFormalSystem.definitions

NextRun ==
    \/ Next
    \/ RunCompleteVerification

SpecRun == InitRun /\ [][NextRun]_vars

\* a TheoremChecker on its own: the proof system takes no step
InitChecker ==
    /\ Init
    /\ obligation.hypothesis = Const(3)
    /\ DOMAIN axioms = {}

NextChecker == Verify

SpecChecker == InitChecker /\ [][NextChecker]_vars

TypeOK ==
    /\ obligation.status \in ProofStatus
    /\ other.status \in ProofStatus
    /\ ncalls \in 0..MaxCalls
    /\ nwrites \in 0..MaxWrites
    /\ call.res.ret \in BOOLEAN

(***************************************************************************)
(* Properties                                                              *)
(***************************************************************************)
Called(strategy) == call.strategy = strategy
\* the last operation was a call of one of the six strategies
AnyCall == call.strategy \in Strategies

\* what the try block of the last call did, before the except clause
TryBlock ==
    CASE Called("simplification") -> simplification_body(call.before, call.args.s)
      [] Called("induction") ->
            induction_body(call.args.base_case, call.args.inductive_step)
      [] Called("contradiction") ->
            contradiction_body(call.args.assumption, call.args.leads_to_contradiction)
      [] Called("limit") ->
            limit_body(call.args.c.expression, call.args.c.variable,
                       call.args.c.limit_point, call.args.c.expected_value, call.args.s)
      [] Called("derivative") ->
            derivative_body(call.args.c.function, call.args.c.variable,
                            call.args.c.expected_derivative, call.args.s)
      [] Called("integral") ->
            integral_body(call.args.c.integrand, call.args.c.variable,
                          call.args.c.bounds, call.args.c.expected_value, call.args.s)
      [] OTHER -> NoCall.res

\* an oracle call or a probe raised during the last call
Faulted == AnyCall /\ TryBlock.exc # NoExc

\* the entries the last call appended to the log
Appended == call.res.steps

LogExtended == SameEntries(obligation.proof_steps, call.before.proof_steps \o Appended)

\* C1: in each of the six strategies, when an oracle call or a probe raises,
\* the call still returns False, no exception escapes, and the obligation's
\* status after the call is Unknown.
C1_TotalUnderFaults ==
    Faulted => /\ call.res.exc = NoExc
               /\ call.res.ret = FALSE
               /\ obligation.status = UNKNOWN

\* a fault hit an obligation that an earlier call had proven
C1_Witness ==
    /\ Faulted
    /\ Called("integral")
    /\ call.before.status = PROVEN
    /\ obligation.status = UNKNOWN

\* C2: every call of a strategy, whatever its outcome, leaves the log
\* strictly longer than it was before the call.
C2_EveryCallAppends ==
    AnyCall => Len(obligation.proof_steps) > Len(call.before.proof_steps)

\* the residual of the last simplification call and its two rewrites
SimplificationResidual ==
    simplify(Sub(call.before.hypothesis, call.before.conclusion), call.args.s)

\* C3: without a fault, simplification ends Proven iff D = simplify(H - C) is
\* zero or expand(D) is zero or factor(D) is zero; otherwise it ends Refuted
\* and appends an entry holding the nonzero residual D.
C3_SimplificationEquality ==
    Called("simplification") /\ ~Faulted =>
        LET D == SimplificationResidual IN
        /\ obligation.status = PROVEN <=>
              \/ IsZero(D)
              \/ IsZero(expand(D, call.args.s))
              \/ IsZero(factor(D, call.args.s))
        /\ obligation.status # PROVEN =>
              /\ obligation.status = REFUTED
              /\ ~IsZero(D)
              /\ LogExtended
              /\ \E i \in 1..Len(Appended) :
                    SameEntry(Appended[i], Entry("Cannot simplify to zero: ", [diff |-> D]))

\* H = 3, C = 4 ended Refuted with the residual -1 in the log
C3_Witness ==
    /\ Called("simplification") /\ ~Faulted
    /\ call.before.hypothesis = Const(3)
    /\ call.before.conclusion = Const(4)
    /\ obligation.status = REFUTED
    /\ SameEntry(obligation.proof_steps[Len(obligation.proof_steps)],
                 Entry("Cannot simplify to zero: ", [diff |-> Expr(Poly(-2, 0, 0), TRUE)]))

NeverWrites(status) == \A i \in 1..Len(call.res.writes) : call.res.writes[i] # status

\* C4: induction with base_case() true and inductive_step() false returns
\* False, ends Refuted, logs 'Inductive step FAILED', and never assigns
\* Proven during the call.
C4_InductionFailingStep ==
    Called("induction") /\ call.args.base_case = "true"
                        /\ call.args.inductive_step = "false" =>
        /\ call.res.ret = FALSE
        /\ call.res.exc = NoExc
        /\ obligation.status = REFUTED
        /\ LogExtended
        /\ \E i \in 1..Len(Appended) :
              SameEntry(Appended[i], Entry("Inductive step FAILED", <<>>))
        /\ NeverWrites(PROVEN)

\* the failing step takes a proven obligation to Refuted
C4_Witness ==
    /\ Called("induction")
    /\ call.args.base_case = "true" /\ call.args.inductive_step = "false"
    /\ call.before.status = PROVEN
    /\ obligation.status = REFUTED

\* C5: induction with base_case() false sets Refuted, appends 'Base case
\* FAILED' and stops: inductive_step() is not evaluated and no base-case
\* success entry is logged.
C5_InductionFailingBase ==
    Called("induction") /\ call.args.base_case = "false" =>
        /\ obligation.status = REFUTED
        /\ LogExtended
        /\ SameEntries(Appended, <<Entry("Base case FAILED", <<>>)>>)
        /\ call.res.evals = <<"base_case">>

\* the base case failed although the inductive step would have held
C5_Witness ==
    /\ Called("induction")
    /\ call.args.base_case = "false" /\ call.args.inductive_step = "true"
    /\ obligation.status = REFUTED

\* C6: induction ends Proven iff base_case() was evaluated first and was
\* true and inductive_step() was evaluated next and was true; it then
\* appends base-case success, inductive-step success and the conclusion, in
\* this order.
C6_InductionSuccess ==
    Called("induction") =>
        /\ obligation.status = PROVEN <=>
              /\ call.res.evals = <<"base_case", "inductive_step">>
              /\ call.args.base_case = "true"
              /\ call.args.inductive_step = "true"
        /\ obligation.status = PROVEN =>
              /\ LogExtended
              /\ SameEntries(Appended,
                             <<Entry("Base case: PROVEN", <<>>),
                               Entry("Inductive step: PROVEN", <<>>),
                               Entry("By mathematical induction: PROVEN", <<>>)>>)

\* a successful induction on an obligation an earlier call had refuted
C6_Witness ==
    /\ Called("induction")
    /\ call.args.base_case = "true" /\ call.args.inductive_step = "true"
    /\ call.before.status = REFUTED
    /\ obligation.status = PROVEN

\* C7: contradiction ends Proven exactly when the predicate returns true,
\* Unknown when it returns false or raises, and never assigns Refuted.
C7_ContradictionNeverRefutes ==
    Called("contradiction") =>
        /\ obligation.status = PROVEN <=> call.args.leads_to_contradiction = "true"
        /\ call.args.leads_to_contradiction \in {"false", "raise"} =>
              obligation.status = UNKNOWN
        /\ NeverWrites(REFUTED)

\* no contradiction found on an obligation an earlier call had refuted
C7_Witness ==
    /\ Called("contradiction")
    /\ call.args.leads_to_contradiction = "false"
    /\ call.before.status = REFUTED
    /\ obligation.status = UNKNOWN

\* the residual of the last integral call
IntegralResidual ==
    simplify(Sub(integrate(call.args.c.integrand, call.args.c.variable, call.args.c.bounds),
                 call.args.c.expected_value), call.args.s)

\* C8: without a fault, integral ends Proven iff D is zero, or bounds is
\* absent and D is a constant; otherwise Refuted (a definite integral with a
\* nonzero constant residual is Refuted, an indefinite one is Proven).
C8_IntegralEquality ==
    Called("integral") /\ ~Faulted =>
        LET D == IntegralResidual IN
        /\ obligation.status = PROVEN <=>
              IsZero(D) \/ (call.args.c.bounds = <<>> /\ is_constant(D))
        /\ obligation.status \in {PROVEN, REFUTED}
        /\ call.res.ret = (obligation.status = PROVEN)

\* x on [0,1] against 1 is Refuted, after 2x against x^2 + 5 was Proven
C8_Witness ==
    /\ Called("integral") /\ ~Faulted
    /\ call.args.c.bounds = <<0, 1>>
    /\ call.args.c.expected_value = Const(1)
    /\ IntegralResidual = Expr(Poly(-1, 0, 0), TRUE)
    /\ obligation.status = REFUTED
    /\ call.before.status = PROVEN
    /\ SameEntries(call.before.proof_steps,
                   <<Entry("Integral = ", [integrand |-> TwoX, variable |-> "x",
                                           computed_integral |-> XSquared]),
                     Entry("Expected: ", [expected_value |-> XSquaredPlus5])>>)

\* the limit the oracle computed in the last limit call
ComputedLimit ==
    limit(call.args.c.expression, call.args.c.variable, call.args.c.limit_point)

\* some entry renders value e as its field f
Names(entries, f, e) ==
    \E i \in 1..Len(entries) :
        f \in DOMAIN entries[i].args /\ entries[i].args[f] = e

\* C9: without a fault, limit ends Proven and returns True iff
\* simplify(L - expected_value) is zero, and otherwise ends Refuted and
\* returns False; either way the appended log names L and expected_value.
C9_LimitEquality ==
    Called("limit") /\ ~Faulted =>
        LET L == ComputedLimit
            zero == IsZero(simplify(Sub(L, call.args.c.expected_value), call.args.s)) IN
        /\ zero => obligation.status = PROVEN /\ call.res.ret = TRUE
        /\ ~zero => obligation.status = REFUTED /\ call.res.ret = FALSE
        /\ LogExtended
        /\ Names(Appended, "computed_limit", L)
        /\ Names(Appended, "expected_value", call.args.c.expected_value)

\* lim x->1 x^2 = 1 against 4 is Refuted and the log names both
C9_Witness ==
    /\ Called("limit") /\ ~Faulted
    /\ call.args.c.limit_point = 1
    /\ obligation.status = REFUTED
    /\ SameEntries(Appended,
                   <<Entry("Limit is , expected ", [computed_limit |-> Const(1),
                                                    expected_value |-> Const(4)])>>)

\* C10: without a fault, derivative ends Proven and returns True iff
\* simplify(Dv - expected_derivative) is zero, and otherwise ends Refuted and
\* returns False.
C10_DerivativeEquality ==
    Called("derivative") /\ ~Faulted =>
        LET Dv == diff(call.args.c.function, call.args.c.variable)
            zero == IsZero(simplify(Sub(Dv, call.args.c.expected_derivative), call.args.s)) IN
        /\ zero => obligation.status = PROVEN /\ call.res.ret = TRUE
        /\ ~zero => obligation.status = REFUTED /\ call.res.ret = FALSE

\* d/dx x^2 against an unevaluated 2*x is Proven once simplify normalises
C10_Witness ==
    /\ Called("derivative") /\ ~Faulted
    /\ call.args.c.expected_derivative = RawTwoX
    /\ "simplify" \in call.args.s.norm
    /\ obligation.status = PROVEN


\* C11: when an oracle call or a probe raises, each strategy other than
\* prove_derivative (simplification, induction, contradiction, limit,
\* integral) appends an error entry to the log besides setting Unknown.
C11_FaultLoggedOutsideDerivative ==
    Faulted /\ ~Called("derivative") =>
        /\ obligation.status = UNKNOWN
        /\ Len(Appended) >= 1
        /\ LogExtended
        /\ Appended[Len(Appended)].args = [e |-> TryBlock.exc]


\* C12: a newly constructed obligation has status Unknown and an empty log,
\* and the log is its own list: what a strategy appends to one obligation's
\* log does not show in the log of another new obligation.
C12_NewObligation ==
    /\ ncalls = 0 => obligation.status = UNKNOWN /\ Len(obligation.proof_steps) = 0
    /\ other.status = UNKNOWN
    /\ Len(other.proof_steps) = 0
    /\ list_id.obligation # list_id.other

\* a strategy has appended to the first obligation; the second is still new
C12_Witness ==
    /\ AnyCall
    /\ Len(Appended) > 0
    /\ Len(obligation.proof_steps) > 0
    /\ Len(other.proof_steps) = 0


\* C13: no strategy produces the Axiom status: whatever calls are made, the
\* obligation's status is Unknown, Proven or Refuted; and add_axiom assigns
\* no status to any obligation.
C13_AxiomNeverProduced ==
    /\ obligation.status \in {UNKNOWN, PROVEN, REFUTED}
    /\ other.status \in {UNKNOWN, PROVEN, REFUTED}
    /\ NeverWrites(AxiomStatus)
    /\ Called("add_axiom") => obligation = call.before /\ other = call.world.other

\* add_axiom ran after a strategy had proven the obligation
C13_Witness ==
    /\ Called("add_axiom")
    /\ ncalls > 0
    /\ obligation.status = PROVEN


\* the step is a strategy call that repeats the previous operation: the same
\* strategy with the same inputs, oracle behaviour and probe outcomes
RepeatedCall ==
    /\ AnyCall
    /\ ncalls' = ncalls + 1
    /\ call'.strategy = call.strategy
    /\ call'.args = call.args

\* C14: calling the same strategy again with the same inputs on the
\* obligation that call has resolved leaves the status as it is and returns
\* the same boolean.
C14_IdempotentStatus ==
    [][RepeatedCall => /\ obligation'.status = obligation.status
                       /\ call'.res.ret = call.res.ret]_vars

\* simplification has run twice on the obligation: the log before the second
\* call is what the second call appended again
C14_Witness ==
    /\ Called("simplification")
    /\ ncalls = 2
    /\ Len(Appended) > 0
    /\ SameEntries(call.before.proof_steps, Appended)
    /\ call.before.status = obligation.status


\* log a is an initial part of log b
IsPrefix(a, b) ==
    Len(a) <= Len(b) /\ \A i \in 1..Len(a) : SameEntry(a[i], b[i])

\* C15: proof_steps is append-only: over every step (every strategy call, on
\* any outcome including a fault) the log before is a prefix of the log
\* after; no entry is removed, reordered or rewritten.
C15_AppendOnly ==
    [][IsPrefix(obligation.proof_steps, obligation'.proof_steps)]_vars

\* a faulted limit call on an obligation with a log: the error entry came
\* after the entries that were there
C15_Witness ==
    /\ Called("limit") /\ Faulted
    /\ Len(call.before.proof_steps) > 0
    /\ Len(obligation.proof_steps) = Len(call.before.proof_steps) + 1
    /\ IsPrefix(call.before.proof_steps, obligation.proof_steps)
    /\ obligation.proof_steps[Len(obligation.proof_steps)].text = "Limit computation error: "


\* dict d is dict d0 with key k set to v and nothing else changed
OverwrittenAt(d, d0, k, v) ==
    /\ DOMAIN d = DOMAIN d0 \cup {k}
    /\ d[k] = v
    /\ \A n \in DOMAIN d0 \ {k} : d[n] = d0[n]

\* C16: add_axiom(n, s) leaves axioms[n] = s whether or not n was present,
\* keeps every other axiom and leaves definitions, lemmas, theorems and
\* corollaries unchanged; add_definition(n, d) likewise changes only
\* definitions[n].
C16_RegistryWriters ==
    /\ Called("add_axiom") =>
          /\ OverwrittenAt(axioms, call.world.axioms, call.args.name, call.args.statement)
          /\ definitions = call.world.definitions
          /\ lemmas = call.world.lemmas
          /\ theorems = call.world.theorems
          /\ corollaries = call.world.corollaries
    /\ Called("add_definition") =>
          /\ OverwrittenAt(definitions, call.world.definitions,
                           call.args.name, call.args.definition)
          /\ axioms = call.world.axioms
          /\ lemmas = call.world.lemmas
          /\ theorems = call.world.theorems
          /\ corollaries = call.world.corollaries

\* add_axiom replaced the statement of an axiom that was present
C16_Witness ==
    /\ Called("add_axiom")
    /\ call.args.name \in DOMAIN call.world.axioms
    /\ call.world.axioms[call.args.name] # call.args.statement
    /\ axioms[call.args.name] = call.args.statement
    /\ Cardinality(DOMAIN axioms) = 6


\* the probes a strategy is handed
OwnProbes(strategy) ==
    CASE strategy = "induction" -> {"base_case", "inductive_step"}
      [] strategy = "contradiction" -> {"leads_to_contradiction"}
      [] OTHER -> {}

\* the log entries a strategy writes
OwnTexts(strategy) ==
    CASE strategy = "simplification" ->
            {"Simplified difference to: ", "Since = 0, equality holds", "Expanded to: ",
             "Factored to: ", "Cannot simplify to zero: ", "Error in simplification: "}
      [] strategy = "induction" ->
            {"Base case FAILED", "Base case: PROVEN", "Inductive step FAILED",
             "Inductive step: PROVEN", "By mathematical induction: PROVEN",
             "Induction error: "}
      [] strategy = "contradiction" ->
            {"Assumed: ", "Derived contradiction", "Therefore negation must be false",
             "Error: "}
      [] strategy = "limit" ->
            {"lim = ", "Expected: ", "Match", "Limit is , expected ",
             "Limit computation error: "}
      [] strategy = "derivative" -> {"d/d () = ", "Expected: ", "Match"}
      [] strategy = "integral" -> {"Integral = ", "Expected: "}
      [] OTHER -> {}

\* C17: within one strategy call each probe is evaluated at most once, and
\* the call does the work of no other strategy: it evaluates only its own
\* probes and appends only its own entries, whatever the outcome.
C17_NoRetryNoFallback ==
    AnyCall =>
        /\ \A i, j \in 1..Len(call.res.evals) :
              i # j => call.res.evals[i] # call.res.evals[j]
        /\ \A i \in 1..Len(call.res.evals) :
              call.res.evals[i] \in OwnProbes(call.strategy)
        /\ \A i \in 1..Len(Appended) : Appended[i].text \in OwnTexts(call.strategy)

\* the contradiction predicate raised: it was called once and the call
\* ended Unknown with its own error entry
C17_Witness ==
    /\ Called("contradiction") /\ Faulted
    /\ call.res.evals = <<"leads_to_contradiction">>
    /\ obligation.status = UNKNOWN
    /\ Len(Appended) = 1
    /\ Appended[1].text = "Error: "


\* C18: the status after a strategy call is decided by the call alone: had
\* the obligation gone in with any other status, it would have come out with
\* the same one; no status is sticky.
C18_StatusDeterminedByCall ==
    AnyCall =>
        /\ \A st \in ProofStatus :
              FinalStatus(st, call.res.writes) = obligation.status
        /\ Called("simplification") =>
              \A st \in ProofStatus :
                  prove_by_symbolic_simplification(
                      [call.before EXCEPT !.status = st], call.args.s).writes
                  = call.res.writes

\* a later call turned a proven obligation into a refuted one
C18_Witness ==
    /\ AnyCall
    /\ call.before.status = PROVEN
    /\ obligation.status = REFUTED
    /\ call.res.ret = FALSE


\* C19: a strategy call returns True iff the obligation's status right after
\* the call is Proven; False is returned exactly for Refuted and Unknown.
C19_ReturnMirrorsStatus ==
    AnyCall =>
        /\ call.res.exc = NoExc
        /\ call.res.ret = TRUE <=> obligation.status = PROVEN
        /\ call.res.ret = FALSE <=> obligation.status \in {REFUTED, UNKNOWN}

\* an indefinite integral accepted on a constant residual returned True
C19_Witness ==
    /\ Called("integral")
    /\ call.args.c.bounds = <<>>
    /\ ~IsZero(IntegralResidual)
    /\ call.res.ret = TRUE
    /\ obligation.status = PROVEN


\* C20: prove_derivative appends to the log only when it ends Proven; when
\* it ends Refuted (nonzero residual) or Unknown (fault) the log is exactly
\* what it was before the call.
C20_DerivativeSilentFailures ==
    Called("derivative") =>
        /\ obligation.status = PROVEN => Len(Appended) > 0 /\ LogExtended
        /\ obligation.status # PROVEN =>
              /\ obligation.status \in {REFUTED, UNKNOWN}
              /\ Len(Appended) = 0
              /\ SameEntries(obligation.proof_steps, call.before.proof_steps)

\* a derivative mismatch on an obligation with a log left the log alone
C20_Witness ==
    /\ Called("derivative") /\ ~Faulted
    /\ obligation.status = REFUTED
    /\ Len(call.before.proof_steps) > 0
    /\ SameEntries(obligation.proof_steps, call.before.proof_steps)


\* C21: induction whose base_case() is true and whose inductive_step() then
\* raises ends Unknown having appended exactly the base-case success entry
\* followed by the induction error entry; when base_case() itself raises,
\* only the error entry is appended and inductive_step() is not evaluated.
C21_InductionFaults ==
    Called("induction") =>
        /\ call.args.base_case = "true" /\ call.args.inductive_step = "raise" =>
              /\ obligation.status = UNKNOWN
              /\ ~call.res.ret
              /\ LogExtended
              /\ SameEntries(Appended, <<Entry("Base case: PROVEN", <<>>),
                                         Entry("Induction error: ", [e |-> ProbeFault])>>)
              /\ call.res.evals = <<"base_case", "inductive_step">>
        /\ call.args.base_case = "raise" =>
              /\ obligation.status = UNKNOWN
              /\ ~call.res.ret
              /\ LogExtended
              /\ SameEntries(Appended, <<Entry("Induction error: ", [e |-> ProbeFault])>>)
              /\ call.res.evals = <<"base_case">>

\* the inductive step raised after the base case had been logged as proven,
\* on an obligation an earlier call had proven
C21_Witness ==
    /\ Called("induction")
    /\ call.args.base_case = "true" /\ call.args.inductive_step = "raise"
    /\ call.before.status = PROVEN
    /\ obligation.status = UNKNOWN
    /\ Len(obligation.proof_steps) = Len(call.before.proof_steps) + 2


\* what the strategy of the last call does, with the inputs of the last
\* call, when it is handed the obligation o
Outcome(o) ==
    CASE Called("simplification") -> prove_by_symbolic_simplification(o, call.args.s)
      [] Called("induction") ->
            prove_by_mathematical_induction(call.args.base_case, call.args.inductive_step)
      [] Called("contradiction") ->
            prove_by_contradiction(call.args.assumption, call.args.leads_to_contradiction)
      [] Called("limit") ->
            prove_limit(call.args.c.expression, call.args.c.variable,
                        call.args.c.limit_point, call.args.c.expected_value, call.args.s)
      [] Called("derivative") ->
            prove_derivative(call.args.c.function, call.args.c.variable,
                             call.args.c.expected_derivative, call.args.s)
      [] Called("integral") ->
            prove_integral(call.args.c.integrand, call.args.c.variable,
                           call.args.c.bounds, call.args.c.expected_value, call.args.s)
      [] OTHER -> NoCall.res

\* the obligations that differ from the one the last call was given only in
\* proof_method and, unless the call was a simplification, in hypothesis
\* and conclusion
Variants ==
    {[call.before EXCEPT !.proof_method = m, !.hypothesis = pr[1], !.conclusion = pr[2]] :
        m \in ProofMethods,
        pr \in IF Called("simplification")
               THEN {<<call.before.hypothesis, call.before.conclusion>>}
               ELSE Problems}

\* C22: a strategy call changes nothing of the obligation but status and
\* proof_steps and changes none of the five registries; and handed an
\* obligation that differs only in proof_method (for the strategies other than
\* simplification, also in hypothesis and conclusion) the same call returns
\* the same value, leaves the same status and appends the same entries.
C22_FrameAndIndependence ==
    AnyCall =>
        /\ obligation.name = call.before.name
        /\ obligation.hypothesis = call.before.hypothesis
        /\ obligation.conclusion = call.before.conclusion
        /\ obligation.proof_method = call.before.proof_method
        /\ axioms = call.world.axioms
        /\ definitions = call.world.definitions
        /\ lemmas = call.world.lemmas
        /\ theorems = call.world.theorems
        /\ corollaries = call.world.corollaries
        /\ \A v \in Variants :
              /\ FinalStatus(v.status, Outcome(v).writes) = obligation.status
              /\ Outcome(v).ret = call.res.ret
              /\ SameEntries(Outcome(v).steps, Appended)

\* a simplification proved an obligation of a system with registered axioms:
\* the obligation labelled "Limit computation" would have been proved too
C22_Witness ==
    /\ Called("simplification")
    /\ obligation.status = PROVEN
    /\ call.before.status # PROVEN
    /\ Cardinality(DOMAIN axioms) > 0
    /\ \E v \in Variants : v.proof_method # obligation.proof_method


\* C23: the lemmas, theorems and corollaries registries are empty in every
\* state, whatever add_axiom, add_definition, strategy calls and
\* run_complete_verification have run; and each of the three obligations
\* run_complete_verification builds has had exactly one strategy called on
\* it, is counted in the summary, and is filed in no registry.
C23_ProofRegistriesNeverWritten ==
    /\ DOMAIN lemmas = {}
    /\ DOMAIN theorems = {}
    /\ DOMAIN corollaries = {}
    /\ Called("run_complete_verification") =>
          LET ts == call.run.theorems IN
          /\ Len(ts) = 3
          /\ call.run.total = 3
          /\ <<ts[1].calls, ts[2].calls, ts[3].calls>>
                = <<(<<"simplification">>), (<<"simplification">>), (<<"limit">>)>>
          /\ call.run.proven = Cardinality({i \in 1..3 : ts[i].obligation.status = PROVEN})
          /\ \A i \in 1..3 :
                ts[i].obligation.name \notin
                    DOMAIN axioms \cup DOMAIN definitions \cup DOMAIN lemmas
                        \cup DOMAIN theorems \cup DOMAIN corollaries
          /\ axioms = call.world.axioms
          /\ definitions = call.world.definitions
          /\ obligation = call.before

\* a run after an add_axiom and an earlier operation: two obligations proven,
\* the limit left Unknown by a fault
C23_Witness ==
    /\ Called("run_complete_verification")
    /\ nwrites > 0
    /\ ncalls > 1
    /\ call.run.proven = 2
    /\ call.run.theorems[3].obligation.status = UNKNOWN
    /\ Len(call.run.theorems[3].obligation.proof_steps) = 1


\* C24: verify, given a condition that is the boolean False, returns False
\* and records theorem_name in failed, not in verified.
C24_FalseConditionFails ==
    Called("verify") /\ call.args.condition = "False" =>
        /\ ~call.res.ret
        /\ failed = Append(call.before.failed, call.args.theorem_name)
        /\ verified = call.before.verified

\* C25: every verify call appends theorem_name to exactly one of verified
\* and failed, whether or not evaluating the condition raised; it returns
\* True exactly when it appended to verified; no exception escapes it; and
\* after n calls the two lists hold n names together, duplicates included.
C25_CheckerBookkeeping ==
    /\ Len(verified) + Len(failed) = nverify
    /\ report(verified, failed).total = nverify
    /\ Called("verify") =>
          /\ call.res.exc = NoExc
          /\ \/ /\ call.res.ret
                /\ verified = Append(call.before.verified, call.args.theorem_name)
                /\ failed = call.before.failed
             \/ /\ ~call.res.ret
                /\ failed = Append(call.before.failed, call.args.theorem_name)
                /\ verified = call.before.verified

\* the third call raised while evaluating an undecidable relational, for a
\* name an earlier call had already recorded as verified and another as failed
C25_Witness ==
    /\ Called("verify")
    /\ nverify = 3
    /\ call.args.condition = "Eq(x, y)"
    /\ ~call.res.ret
    /\ verified = <<call.args.theorem_name>>
    /\ failed = <<call.args.theorem_name, call.args.theorem_name>>

====
